---- MODULE Spec2Model ----
(***************************************************************************)
(* State-machine model of the MOS simulator (src/MOS_Phase_3.cpp): the     *)
(* loader, the paged memory manager, the interrupt dispatcher, the         *)
(* termination path, the executor loop and the round-robin scheduler.      *)
(*                                                                         *)
(* The C++ methods mutate the fields of one MOS object.  Each method is    *)
(* translated to an operator from a machine record s (all the fields) to   *)
(* the machine record after the call; an action applies the operators of   *)
(* one step of the program and commits the result to the variables.        *)
(***************************************************************************)
EXTENDS Integers, Sequences, FiniteSets, TLC

(* ------------------------------ constants ------------------------------ *)

MEM_SIZE == 100
PAGE_SIZE == 10
FRAME_COUNT == 10
WORD_SIZE == 4
MAX_TIMER == 1000000
QUANTUM == 10

\* enum EM_Code
EM_NO_ERR == "EM_NO_ERR"
EM_OUT_OF_DATA == "EM_OUT_OF_DATA"
EM_LINE_LIMIT == "EM_LINE_LIMIT"
EM_TIME_LIMIT == "EM_TIME_LIMIT"
EM_OP_CODE_ERR == "EM_OP_CODE_ERR"
EM_OPERAND_ERR == "EM_OPERAND_ERR"
EM_INVALID_PAGE == "EM_INVALID_PAGE"

\* enum SI_Type, enum PI_Type
READ == 1
WRITE == 2
TERM == 3
PI_OP_ERR == 1
PI_OPERAND_ERR == 2
PI_PAGE_FAULT == 3

\* enum InterruptPriority
PRIORITY_TIMER == 3
PRIORITY_PAGE_FAULT == 2
PRIORITY_PROGRAM == 1
PRIORITY_SYSCALL == 0

\* enum ProcessState
READY == "READY"
RUNNING == "RUNNING"
BLOCKED == "BLOCKED"
TERMINATED == "TERMINATED"

(* ------------------------------- bounds -------------------------------- *)

\* time limit of the two looping jobs of the interleaving deck
LoopTTL == 12
\* the single-job decks are run with every TTL in 0..MaxTTL
MaxTTL == 2
\* the print deck is run with every TLL in 0..MaxTLL
MaxTLL == 1
\* addressMap is applied to every VA in -MapSlack .. MEM_SIZE - 1 + MapSlack
MapSlack == 2

(* ------------------------- characters and words ------------------------ *)

\* a character is a one-token string; NUL stands for '\0'
NUL == "NUL"
SP == " "
Digits == <<"0", "1", "2", "3", "4", "5", "6", "7", "8", "9">>

\* ::isspace
IsSpace(c) == c = SP

IsDigit(c) == \E i \in 1..10 : Digits[i] = c

DigitVal(c) == (CHOOSE i \in 1..10 : Digits[i] = c) - 1

\* a memory word all of whose characters are '\0' (Memory::clearFrame)
NulWord == <<NUL, NUL, NUL, NUL>>

\* Memory::data is not initialised by the constructor: the content of a word
\* that was never written is indeterminate; it is held as a word of its own
JUNK == "JUNK"
JunkWord == <<JUNK, JUNK, JUNK, JUNK>>

\* std::string::resize(WORD_SIZE, ' '): cut to four characters or pad with ' '
Resize(str) ==
    [k \in 1..WORD_SIZE |-> IF k <= Len(str) THEN str[k] ELSE SP]

\* remove_if(..., ::isspace) followed by erase
RECURSIVE StripSpace(_)
StripSpace(str) ==
    IF str = <<>> THEN <<>>
    ELSE IF IsSpace(Head(str)) THEN StripSpace(Tail(str))
    ELSE <<Head(str)>> \o StripSpace(Tail(str))

\* the characters of a word that are not '\0', in order (the fetch loop and
\* the output loop of handleWrite)
RECURSIVE DropNul(_)
DropNul(str) ==
    IF str = <<>> THEN <<>>
    ELSE IF Head(str) = NUL THEN DropNul(Tail(str))
    ELSE <<Head(str)>> \o DropNul(Tail(str))

\* erase the trailing ' ' and '\0' characters
RECURSIVE TrimRight(_)
TrimRight(str) ==
    IF str = <<>> THEN <<>>
    ELSE IF str[Len(str)] = SP \/ str[Len(str)] = NUL
         THEN TrimRight(SubSeq(str, 1, Len(str) - 1))
    ELSE str

\* the value of the longest prefix of digits of str, most significant first
RECURSIVE DigitsValue(_, _)
DigitsValue(str, acc) ==
    IF str = <<>> \/ ~IsDigit(Head(str)) THEN acc
    ELSE DigitsValue(Tail(str), acc * 10 + DigitVal(Head(str)))

\* std::stoi: an optional sign, then at least one digit, else it throws
stoi(str) ==
    LET signed == str # <<>> /\ (Head(str) = "-" \/ Head(str) = "+")
        body == IF signed THEN Tail(str) ELSE str
    IN  IF body = <<>> \/ ~IsDigit(Head(body))
        THEN [ok |-> FALSE, val |-> 0]
        ELSE [ok |-> TRUE,
              val |-> IF signed /\ Head(str) = "-"
                      THEN 0 - DigitsValue(body, 0)
                      ELSE DigitsValue(body, 0)]

(* ------------------------------- state --------------------------------- *)

VARIABLES
    input,          \* the lines of input.txt that loadJobs has not read yet
    readingData,    \* loadJobs: readingData
    programCode,    \* loadJobs: programCode, as the list of its lines
    loadPcb,        \* loadJobs: pcb (0 is nullptr)
    loadPage,       \* loadProgramIntoMemory: i, the page being allocated
    mem,            \* MOS::mem.data
    allocated,      \* MOS::mem.allocated
    locked_frames,  \* MOS::mem.locked_frames
    pcbs,           \* the PCB objects created so far, in creation order
    readyQueue,     \* MOS::readyQueue
    currentPCB,     \* MOS::currentPCB (0 is nullptr)
    cpu,            \* MOS::cpu
    globalTimer,    \* MOS::globalTimer
    systemRunning,  \* MOS::systemRunning
    outFile,        \* what was written to output.txt, in order
    pc,             \* where the program is: load, loadprog, run, exec, switch,
                    \* halted, aborted, crashed; map, mapped for the mapper alone
    lastDispatch,   \* history: the causes and the entry of the last dispatch
    lastMap,        \* history: the last application of addressMap on its own
    hist            \* history: the tick at which the current PCB last changed
                    \* and the tick of the last context switch (-1: none)

vars == <<input, readingData, programCode, loadPcb, loadPage, mem, allocated,
          locked_frames, pcbs, readyQueue, currentPCB, cpu, globalTimer,
          systemRunning, outFile, pc, lastDispatch, lastMap, hist>>

Frames == 0..(FRAME_COUNT - 1)
Pages == 0..(FRAME_COUNT - 1)

\* the fields of the MOS object the methods read and write, as one record
Machine ==
    [mem |-> mem, allocated |-> allocated, locked_frames |-> locked_frames,
     pcbs |-> pcbs, readyQueue |-> readyQueue, currentPCB |-> currentPCB,
     cpu |-> cpu, globalTimer |-> globalTimer,
     systemRunning |-> systemRunning, outFile |-> outFile,
     lastDispatch |-> lastDispatch]

\* the machine record s becomes the next state
Commit(s) ==
    /\ mem' = s.mem
    /\ allocated' = s.allocated
    /\ locked_frames' = s.locked_frames
    /\ pcbs' = s.pcbs
    /\ readyQueue' = s.readyQueue
    /\ currentPCB' = s.currentPCB
    /\ cpu' = s.cpu
    /\ globalTimer' = s.globalTimer
    /\ systemRunning' = s.systemRunning
    /\ outFile' = s.outFile
    /\ lastDispatch' = s.lastDispatch
    /\ hist' = [since |-> IF s.currentPCB # currentPCB THEN s.globalTimer
                          ELSE hist.since,
                preempt |-> IF pc = "switch" /\ s.currentPCB # currentPCB
                            THEN s.globalTimer ELSE hist.preempt]

\* struct CPUState as the constructor leaves it: IR has no initialiser
InitCPU ==
    [IR |-> JunkWord, IC |-> 0, R |-> NulWord, C |-> FALSE,
     SI |-> 0, PI |-> 0, TI |-> 0, RA |-> 0]

\* memset(&cpu, 0, sizeof(CPUState))
ZeroCPU ==
    [IR |-> NulWord, IC |-> 0, R |-> NulWord, C |-> FALSE,
     SI |-> 0, PI |-> 0, TI |-> 0, RA |-> 0]

\* pcb->pageTable[i] = {-1, false} for every i
EmptyPageTable == [i \in Pages |-> [frame |-> -1, valid |-> FALSE]]

\* no preemption of the job recorded
NoSnapshot == [taken |-> FALSE, R |-> NulWord, C |-> FALSE, IC |-> 0]

\* new PCB() as the $AMJ branch of loadJobs fills it; hProg, hExec, hPre and
\* hR are history: the instructions loaded, the instruction words executed,
\* the registers at the job's last preemption and the register R before the
\* instruction the job executed last
NewPCB(pid, ttl, tll, ptr) ==
    [pid |-> pid, TTL |-> ttl, TLL |-> tll, TTC |-> 0, LLC |-> 0,
     pageTable |-> EmptyPageTable, PTR |-> ptr, dataCards |-> <<>>,
     terminated |-> FALSE, state |-> READY, programCounter |-> -1,
     deleted |-> FALSE,
     hProg |-> <<>>, hExec |-> <<>>, hPre |-> NoSnapshot, hR |-> NulWord]

\* one entry of output.txt: a line written by handleWrite, or the block
\* written by terminate
OutLine(pid, text) ==
    [kind |-> "line", pid |-> pid, text |-> text, reason |-> "",
     TTC |-> 0, LLC |-> 0]

OutTerm(pid, code, ttc, llc) ==
    [kind |-> "term", pid |-> pid, text |-> <<>>, reason |-> code,
     TTC |-> ttc, LLC |-> llc]

(* ------------------------------- memory -------------------------------- *)

\* the words of a frame
FrameWords(f) == (f * PAGE_SIZE)..(f * PAGE_SIZE + PAGE_SIZE - 1)

\* Memory::clearFrame on every frame of fs
clearFrames(m, fs) ==
    [a \in 0..(MEM_SIZE - 1) |->
        IF (a \div PAGE_SIZE) \in fs THEN NulWord ELSE m[a]]

\* allocateFrame without the test of mem.allocated[frame]
allocateFrame_NoCheck(alloc) == Frames \cup {-1}

\* what allocateFrame can return: each of its 2 * FRAME_COUNT draws is any
\* frame; the first draw that is not allocated is returned, and -1 when every
\* draw hit an allocated frame, which takes at least one allocated frame
allocateFrame(alloc) ==
    {f \in Frames : ~alloc[f]}
        \cup (IF \E f \in Frames : alloc[f] THEN {-1} ELSE {})

\* addressMap with `VA > MEM_SIZE` for `VA >= MEM_SIZE` in its first test
addressMap_OffByOne(s, VA) ==
    LET fail(pi) == [ok |-> FALSE, RA |-> -1, PI |-> pi]
        page == VA \div PAGE_SIZE
        offset == VA % PAGE_SIZE
        entry == s.pcbs[s.currentPCB].pageTable[page]
        ra == entry.frame * PAGE_SIZE + offset
    IN  IF VA < 0 \/ VA > MEM_SIZE THEN fail(PI_OPERAND_ERR)
        ELSE IF page >= FRAME_COUNT THEN fail(PI_PAGE_FAULT)
        ELSE IF ~entry.valid THEN fail(PI_PAGE_FAULT)
        ELSE IF entry.frame < 0 \/ entry.frame >= FRAME_COUNT
             THEN fail(PI_PAGE_FAULT)
        ELSE IF ra < 0 \/ ra >= MEM_SIZE THEN fail(PI_OPERAND_ERR)
        ELSE [ok |-> TRUE, RA |-> ra, PI |-> s.cpu.PI]

\* addressMap(VA, RA) for the current PCB: whether it succeeded, the RA it
\* stored (it stores none when it fails: RA is then -1 here and the caller
\* keeps the old one) and cpu.PI afterwards
addressMap(s, VA) ==
    LET fail(pi) == [ok |-> FALSE, RA |-> -1, PI |-> pi]
        page == VA \div PAGE_SIZE
        offset == VA % PAGE_SIZE
        entry == s.pcbs[s.currentPCB].pageTable[page]
        ra == entry.frame * PAGE_SIZE + offset
    IN  IF VA < 0 \/ VA >= MEM_SIZE THEN fail(PI_OPERAND_ERR)
        ELSE IF page >= FRAME_COUNT THEN fail(PI_PAGE_FAULT)
        ELSE IF ~entry.valid THEN fail(PI_PAGE_FAULT)
        ELSE IF entry.frame < 0 \/ entry.frame >= FRAME_COUNT
             THEN fail(PI_PAGE_FAULT)
        ELSE IF ra < 0 \/ ra >= MEM_SIZE THEN fail(PI_OPERAND_ERR)
        ELSE [ok |-> TRUE, RA |-> ra, PI |-> s.cpu.PI]

(* ------------------------- context and termination --------------------- *)

saveContext(s) ==
    IF s.currentPCB = 0 THEN s
    ELSE [s EXCEPT !.pcbs[s.currentPCB].state = BLOCKED,
                   !.pcbs[s.currentPCB].programCounter = s.cpu.IC]

restoreContext(s) ==
    IF s.currentPCB = 0 THEN s
    ELSE [s EXCEPT !.pcbs[s.currentPCB].state = RUNNING,
                   !.cpu.IC =
                       IF s.pcbs[s.currentPCB].programCounter = -1 THEN 0
                       ELSE s.pcbs[s.currentPCB].programCounter]

\* terminate without the release of the page-table frame
ReleasedFrames_NoPageTable(p) ==
    {p.pageTable[i].frame :
        i \in {j \in Pages : /\ p.pageTable[j].valid
                             /\ p.pageTable[j].frame >= 0
                             /\ p.pageTable[j].frame < FRAME_COUNT}}

\* the frames terminate releases for PCB p: its page-table frame and the
\* frames of its valid page-table entries
ReleasedFrames(p) ==
    (IF p.PTR # -1 THEN {p.PTR \div PAGE_SIZE} ELSE {})
        \cup {p.pageTable[i].frame :
                i \in {j \in Pages : /\ p.pageTable[j].valid
                                     /\ p.pageTable[j].frame >= 0
                                     /\ p.pageTable[j].frame < FRAME_COUNT}}

terminate(s, code) ==
    IF s.currentPCB = 0 THEN s
    ELSE
    LET c == s.currentPCB
        p == s.pcbs[c]
        rel == ReleasedFrames(p)
        more == s.readyQueue # <<>>
        next == IF more THEN Head(s.readyQueue) ELSE 0
        cpu1 == IF p.state = RUNNING THEN ZeroCPU ELSE s.cpu
        cpu2 == IF more THEN [cpu1 EXCEPT !.IC = 0] ELSE cpu1
        \* the PCB as it is when it is deleted
        dead == [p EXCEPT
                    !.pageTable = [i \in Pages |->
                        [frame |-> p.pageTable[i].frame, valid |-> FALSE]],
                    !.dataCards = <<>>,
                    !.terminated = TRUE,
                    !.PTR = -1,
                    \* memset(&terminatedPCB->context, 0, ...)
                    !.state = READY,
                    !.programCounter = 0,
                    !.deleted = TRUE]
        pcbs1 == [s.pcbs EXCEPT ![c] = dead]
    IN  [s EXCEPT
            !.outFile = Append(s.outFile, OutTerm(p.pid, code, p.TTC, p.LLC)),
            !.allocated = [f \in Frames |->
                               IF f \in rel THEN FALSE ELSE s.allocated[f]],
            !.mem = clearFrames(s.mem, rel),
            !.locked_frames = s.locked_frames \ rel,
            !.pcbs = IF more THEN [pcbs1 EXCEPT ![next].state = RUNNING]
                     ELSE pcbs1,
            !.currentPCB = next,
            !.readyQueue = IF more THEN Tail(s.readyQueue) ELSE <<>>,
            !.systemRunning = IF more THEN s.systemRunning ELSE FALSE,
            !.cpu = [cpu2 EXCEPT !.TI = 0, !.SI = 0, !.PI = 0]]

handleTimerInterrupt(s) == terminate(s, EM_TIME_LIMIT)
handleOpCodeError(s) == terminate(s, EM_OP_CODE_ERR)
handleOperandError(s) == terminate(s, EM_OPERAND_ERR)
handlePageFault(s) == terminate(s, EM_INVALID_PAGE)
handleTerminate(s) == terminate(s, EM_NO_ERR)

(* ------------------------------ I/O handlers --------------------------- *)

\* the loop of handleRead from chunk k on: chunk k of the card goes to the
\* word addressMap gives for cpu.RA + k; the first failed mapping ends it
RECURSIVE ReadChunks(_, _, _)
ReadChunks(s, data, k) ==
    IF k * WORD_SIZE >= Len(data) THEN s
    ELSE
    LET last == IF (k + 1) * WORD_SIZE <= Len(data)
                THEN (k + 1) * WORD_SIZE ELSE Len(data)
        word == Resize(SubSeq(data, k * WORD_SIZE + 1, last))
        m == addressMap(s, s.cpu.RA + k)
    IN  IF ~m.ok THEN [s EXCEPT !.cpu.PI = m.PI]
        ELSE ReadChunks([s EXCEPT !.mem[m.RA] = word], data, k + 1)

handleRead(s) ==
    LET c == s.currentPCB
    IN  IF s.pcbs[c].dataCards = <<>> THEN [s EXCEPT !.cpu.SI = TERM]
        ELSE ReadChunks([s EXCEPT !.pcbs[c].dataCards = Tail(@)],
                        Head(s.pcbs[c].dataCards), 0)

\* handleWrite without the test of LLC against TLL
handleWrite_NoLimit(s) ==
    LET c == s.currentPCB
        s1 == [s EXCEPT !.pcbs[c].LLC = @ + 1]
        m == addressMap(s1, s1.cpu.RA)
    IN  IF ~m.ok THEN [s1 EXCEPT !.cpu.PI = m.PI]
        ELSE [s1 EXCEPT !.outFile =
                 Append(@, OutLine(s1.pcbs[c].pid, DropNul(s1.mem[m.RA])))]

\* handleWrite: LLC is counted, then the word at cpu.RA is written
handleWrite(s) ==
    LET c == s.currentPCB
        s1 == [s EXCEPT !.pcbs[c].LLC = @ + 1]
        m == addressMap(s1, s1.cpu.RA)
    IN  IF s1.pcbs[c].LLC > s1.pcbs[c].TLL THEN [s1 EXCEPT !.cpu.SI = TERM]
        ELSE IF ~m.ok THEN [s1 EXCEPT !.cpu.PI = m.PI]
        ELSE [s1 EXCEPT !.outFile =
                 Append(@, OutLine(s1.pcbs[c].pid, DropNul(s1.mem[m.RA])))]

(* --------------------------- interrupt dispatch ------------------------ *)

\* initInterruptVectorTable: the entries in the order they are pushed
interruptVectorTable ==
    << [type |-> 0, priority |-> PRIORITY_TIMER,
        handler |-> "handleTimerInterrupt"],
       [type |-> PI_OP_ERR, priority |-> PRIORITY_PROGRAM,
        handler |-> "handleOpCodeError"],
       [type |-> PI_OPERAND_ERR, priority |-> PRIORITY_PROGRAM,
        handler |-> "handleOperandError"],
       [type |-> PI_PAGE_FAULT, priority |-> PRIORITY_PAGE_FAULT,
        handler |-> "handlePageFault"],
       [type |-> READ, priority |-> PRIORITY_SYSCALL,
        handler |-> "handleRead"],
       [type |-> WRITE, priority |-> PRIORITY_SYSCALL,
        handler |-> "handleWrite"],
       [type |-> TERM, priority |-> PRIORITY_SYSCALL,
        handler |-> "handleTerminate"] >>

\* entry.handler()
CallHandler(s, h) ==
    CASE h = "handleTimerInterrupt" -> handleTimerInterrupt(s)
      [] h = "handleOpCodeError" -> handleOpCodeError(s)
      [] h = "handleOperandError" -> handleOperandError(s)
      [] h = "handlePageFault" -> handlePageFault(s)
      [] h = "handleRead" -> handleRead(s)
      [] h = "handleWrite" -> handleWrite(s)
      [] h = "handleTerminate" -> handleTerminate(s)

\* the loop without `entry.priority > highestPriority`: the last entry of
\* the type wins
RECURSIVE ScanTable_NoPriority(_, _, _)
ScanTable_NoPriority(i, cause, best) ==
    IF i > Len(interruptVectorTable) THEN best
    ELSE IF interruptVectorTable[i].type = cause
         THEN ScanTable_NoPriority(i + 1, cause,
                                   <<i, interruptVectorTable[i].priority>>)
    ELSE ScanTable_NoPriority(i + 1, cause, best)

\* one of the loops `for (auto& entry : interruptVectorTable)` of
\* handleInterrupt, from entry i on: best is <<highestPriorityEntry (0 is
\* nullptr), highestPriority>>
RECURSIVE ScanTable(_, _, _)
ScanTable(i, cause, best) ==
    IF i > Len(interruptVectorTable) THEN best
    ELSE IF /\ interruptVectorTable[i].type = cause
            /\ interruptVectorTable[i].priority > best[2]
         THEN ScanTable(i + 1, cause, <<i, interruptVectorTable[i].priority>>)
    ELSE ScanTable(i + 1, cause, best)

\* the entry handleInterrupt selects for the pending causes (0: none)
SelectEntry(TI, PI, SI) ==
    LET b0 == IF TI # 0 THEN <<1, interruptVectorTable[1].priority>>
              ELSE <<0, -1>>
        b1 == IF PI # 0 THEN ScanTable(1, PI, b0) ELSE b0
        b2 == IF SI # 0 THEN ScanTable(1, SI, b1) ELSE b1
    IN  b2[1]

\* the end of handleInterrupt: the serviced cause is cleared, by the type of
\* the entry and the causes as they are after the handler
ClearServiced(s, type) ==
    IF type = 0 THEN [s EXCEPT !.cpu.TI = 0]
    ELSE IF type = s.cpu.PI THEN [s EXCEPT !.cpu.PI = 0]
    ELSE IF type = s.cpu.SI THEN [s EXCEPT !.cpu.SI = 0]
    ELSE s

\* handleInterrupt once it has selected entry e: saveContext, the handler,
\* the clearing of the cause, restoreContext; the history records the causes
\* that were pending and the entry
Dispatch(s, e) ==
    [restoreContext(
         ClearServiced(
             CallHandler(saveContext(s), interruptVectorTable[e].handler),
             interruptVectorTable[e].type))
     EXCEPT !.lastDispatch =
         [TI |-> s.cpu.TI, PI |-> s.cpu.PI, SI |-> s.cpu.SI,
          entry |-> e, handler |-> interruptVectorTable[e].handler]]

\* interruptsEnabled is never cleared
handleInterrupt(s) ==
    IF SelectEntry(s.cpu.TI, s.cpu.PI, s.cpu.SI) = 0 THEN s
    ELSE Dispatch(s, SelectEntry(s.cpu.TI, s.cpu.PI, s.cpu.SI))

(* ------------------------------ instructions --------------------------- *)

\* executeArithmeticLogic without the return after a failed mapping: LR
\* then copies from an address that was never set
executeArithmeticLogic_NoReturn(s, op, target) ==
    LET m == addressMap(s, target)
    IN  IF ~m.ok /\ op = <<"L", "R">>
        THEN [s EXCEPT !.cpu.PI = m.PI, !.cpu.R = JunkWord]
        ELSE IF ~m.ok THEN [s EXCEPT !.cpu.PI = m.PI]
        ELSE IF op = <<"L", "R">> THEN [s EXCEPT !.cpu.R = s.mem[m.RA]]
        ELSE IF op = <<"S", "R">> THEN [s EXCEPT !.mem[m.RA] = s.cpu.R]
        ELSE IF op = <<"C", "R">>
             THEN [s EXCEPT !.cpu.C = (s.cpu.R = s.mem[m.RA])]
        ELSE IF op = <<"B", "T">> /\ s.cpu.C THEN [s EXCEPT !.cpu.IC = target]
        ELSE s

\* executeArithmeticLogic with an SR that stores nothing
executeArithmeticLogic_NoStore(s, op, target) ==
    LET m == addressMap(s, target)
    IN  IF ~m.ok THEN [s EXCEPT !.cpu.PI = m.PI]
        ELSE IF op = <<"L", "R">> THEN [s EXCEPT !.cpu.R = s.mem[m.RA]]
        ELSE IF op = <<"C", "R">>
             THEN [s EXCEPT !.cpu.C = (s.cpu.R = s.mem[m.RA])]
        ELSE IF op = <<"B", "T">> /\ s.cpu.C THEN [s EXCEPT !.cpu.IC = target]
        ELSE s

\* executeArithmeticLogic: LR, SR, CR and BT on the mapped operand
executeArithmeticLogic(s, op, target) ==
    LET m == addressMap(s, target)
    IN  IF ~m.ok THEN [s EXCEPT !.cpu.PI = m.PI]
        ELSE IF op = <<"L", "R">> THEN [s EXCEPT !.cpu.R = s.mem[m.RA]]
        ELSE IF op = <<"S", "R">> THEN [s EXCEPT !.mem[m.RA] = s.cpu.R]
        ELSE IF op = <<"C", "R">>
             THEN [s EXCEPT !.cpu.C = (s.cpu.R = s.mem[m.RA])]
        ELSE IF op = <<"B", "T">> /\ s.cpu.C THEN [s EXCEPT !.cpu.IC = target]
        ELSE s

\* executeInstruction without its last branch: an opcode that is no
\* instruction is skipped
executeInstruction_UnknownIgnored(s) ==
    LET instruction == TrimRight(s.cpu.IR)
        op == StripSpace(SubSeq(instruction, 1, 2))
        operandStr == StripSpace(SubSeq(instruction, 3, Len(instruction)))
        target == stoi(operandStr)
        badOperand == [s EXCEPT !.cpu.PI = PI_OPERAND_ERR]
    IN  IF Len(instruction) < 3
        THEN terminate([s EXCEPT !.cpu.PI = PI_OP_ERR], EM_OP_CODE_ERR)
        ELSE IF op = <<"G", "D">>
        THEN IF ~target.ok THEN badOperand
             ELSE handleTerminate(handleRead([s EXCEPT !.cpu.SI = READ]))
        ELSE IF op = <<"P", "D">>
        THEN IF ~target.ok THEN badOperand
             ELSE LET m == addressMap(s, target.val)
                  IN  IF ~m.ok THEN [s EXCEPT !.cpu.PI = m.PI]
                      ELSE handleWrite([s EXCEPT !.cpu.RA = m.RA,
                                                 !.cpu.SI = WRITE])
        ELSE IF op = <<"H">>
        THEN handleInterrupt([s EXCEPT !.cpu.SI = TERM])
        ELSE IF op \in {<<"L", "R">>, <<"S", "R">>, <<"C", "R">>, <<"B", "T">>}
        THEN IF ~target.ok THEN badOperand
             ELSE executeArithmeticLogic(s, op, target.val)
        ELSE s

\* executeInstruction: the instruction in cpu.IR is parsed and carried out
executeInstruction(s) ==
    LET instruction == TrimRight(s.cpu.IR)
        op == StripSpace(SubSeq(instruction, 1, 2))
        operandStr == StripSpace(SubSeq(instruction, 3, Len(instruction)))
        target == stoi(operandStr)
        badOperand == [s EXCEPT !.cpu.PI = PI_OPERAND_ERR]
    IN  IF Len(instruction) < 3
        THEN terminate([s EXCEPT !.cpu.PI = PI_OP_ERR], EM_OP_CODE_ERR)
        ELSE IF op = <<"G", "D">>
        THEN IF ~target.ok THEN badOperand
             ELSE handleTerminate(handleRead([s EXCEPT !.cpu.SI = READ]))
        ELSE IF op = <<"P", "D">>
        THEN IF ~target.ok THEN badOperand
             ELSE LET m == addressMap(s, target.val)
                  IN  IF ~m.ok THEN [s EXCEPT !.cpu.PI = m.PI]
                      ELSE handleWrite([s EXCEPT !.cpu.RA = m.RA,
                                                 !.cpu.SI = WRITE])
        ELSE IF op = <<"H">>
        THEN handleInterrupt([s EXCEPT !.cpu.SI = TERM])
        ELSE IF op \in {<<"L", "R">>, <<"S", "R">>, <<"C", "R">>, <<"B", "T">>}
        THEN IF ~target.ok THEN badOperand
             ELSE executeArithmeticLogic(s, op, target.val)
        ELSE terminate([s EXCEPT !.cpu.PI = PI_OP_ERR], EM_OP_CODE_ERR)

(* -------------------------------- input -------------------------------- *)

\* one line of input.txt: a control card with its fields as loadJobs parses
\* them (stoi of the three 4-digit fields of $AMJ), or a line of text
AMJ(pid, ttl, tll) ==
    [kind |-> "AMJ", pid |-> pid, TTL |-> ttl, TLL |-> tll, text |-> <<>>]
DTA == [kind |-> "DTA", pid |-> 0, TTL |-> 0, TLL |-> 0, text |-> <<>>]
END == [kind |-> "END", pid |-> 0, TTL |-> 0, TLL |-> 0, text |-> <<>>]
Text(str) == [kind |-> "TXT", pid |-> 0, TTL |-> 0, TLL |-> 0, text |-> str]

\* the cards of one job: $AMJ, the program cards, $DTA, the data cards, $END
Job(pid, ttl, tll, prog, data) ==
    <<AMJ(pid, ttl, tll)>> \o [i \in 1..Len(prog) |-> Text(prog[i])]
        \o <<DTA>> \o [i \in 1..Len(data) |-> Text(data[i])] \o <<END>>

\* one job of two compares, with every time limit up to MaxTTL
TimeDeck(ttl) ==
    Job(1, ttl, 1, << <<"C", "R", "0", "5">>, <<"C", "R", "0", "6">> >>, <<>>)

\* one job of three program cards without a branch, time limit above three
OrderDeck ==
    Job(2, 3 + MaxTTL, 1,
        << <<"C", "R", "0", "5">>, <<"C", "R", "0", "6">>,
           <<"C", "R", "0", "7">> >>, <<>>)

\* two jobs that loop: the first on a compare that holds while R is empty,
\* the second on a load that fills R
LoopDeck ==
    Job(3, LoopTTL, 1,
        << <<"C", "R", "0", "5">>, <<"B", "T", "0", "0">> >>, <<>>)
    \o Job(4, LoopTTL, 1,
        << <<"L", "R", "0", "0">>, <<"B", "T", "0", "0">> >>, <<>>)

\* one job that prints, with every line limit up to MaxTLL
PrintDeck(tll) ==
    Job(5, 5, tll, << <<"P", "D", "0", "0">> >>, <<>>)

\* a job that reads a card, followed by a job with time limit 0
ReadDeck ==
    Job(6, 5, 1, << <<"G", "D", "0", "0">> >>,
        << <<"H", "E", "L", "L", "O">> >>)
    \o Job(7, 0, 1, << <<"C", "R", "0", "5">> >>, <<>>)

\* one job that halts
HaltDeck ==
    Job(8, 5, 1, << <<"H">> >>, <<>>)

\* one job that reads a card to an address and prints that address
EchoDeck ==
    Job(9, 5, 1, << <<"G", "D", "0", "5">>, <<"P", "D", "0", "5">> >>,
        << <<"H", "E", "L", "L", "O">> >>)

\* a job whose card has an opcode that is no instruction, followed by a job
\* of two compares
UnknownDeck ==
    Job(10, 5, 1, << <<"X", "Y", "0", "0">> >>, <<>>)
    \o Job(11, 5, 1,
        << <<"C", "R", "0", "5">>, <<"C", "R", "0", "6">> >>, <<>>)

\* the operands of the second card of FaultDeck: a page that no job of two
\* cards has, and an address below 0
FaultOperands == {<<"5", "0">>, <<"-", "5">>}
FaultOps == {<<"L", "R">>, <<"S", "R">>, <<"C", "R">>, <<"P", "D">>}

\* one job that fills R and then addresses memory it does not have
FaultDeck(op, operand) ==
    Job(12, 5, 1, << <<"L", "R", "0", "0">>, op \o operand >>, <<>>)

\* one job that branches, with C false, to a page it does not have
BranchDeck ==
    Job(13, 5, 1, << <<"B", "T", "5", "0">>, <<"C", "R", "0", "5">> >>, <<>>)

\* a job that loops on its second instruction, followed by a job whose card
\* has an opcode that is no instruction
ResumeDeck ==
    Job(14, 12, 1,
        << <<"C", "R", "0", "5">>, <<"B", "T", "0", "1">> >>, <<>>)
    \o Job(15, 5, 1, << <<"X", "Y", "0", "0">> >>, <<>>)

Decks ==
    {TimeDeck(ttl) : ttl \in 0..MaxTTL}
        \cup {PrintDeck(tll) : tll \in 0..MaxTLL}
        \cup {OrderDeck, LoopDeck, ReadDeck, HaltDeck, EchoDeck, UnknownDeck,
              BranchDeck}
        \cup {FaultDeck(op, operand) : op \in FaultOps,
                                       operand \in FaultOperands}

(* -------------------------------- loader ------------------------------- *)

\* the loop of loadProgramIntoMemory that splits the code into instructions:
\* whitespace removed, empty lines dropped
RECURSIVE Instructions(_)
Instructions(code) ==
    IF code = <<>> THEN <<>>
    ELSE IF StripSpace(Head(code)) = <<>> THEN Instructions(Tail(code))
    ELSE <<StripSpace(Head(code))>> \o Instructions(Tail(code))

instructionsPerPage == PAGE_SIZE \div WORD_SIZE

pagesNeeded(n) == (n + instructionsPerPage - 1) \div instructionsPerPage

\* where loadJobs goes on after a line: the next line, or run()'s loop
AfterLine(rest) == IF rest = <<>> THEN "run" ELSE "load"

\* the body of loadProgramIntoMemory's allocation loop for page i with the
\* frame allocateFrame returned: the frame is cleared and the instructions of
\* the page are copied to its first words
LoadPageInto(m, instrs, i, frame) ==
    LET startInstr == i * instructionsPerPage
        endInstr == IF startInstr + instructionsPerPage < Len(instrs)
                    THEN startInstr + instructionsPerPage ELSE Len(instrs)
    IN  [a \in 0..(MEM_SIZE - 1) |->
            IF a \div PAGE_SIZE # frame THEN m[a]
            ELSE IF startInstr + (a % PAGE_SIZE) < endInstr
                 THEN Resize(instrs[startInstr + (a % PAGE_SIZE) + 1])
            ELSE NulWord]

\* loadJobs: one iteration of `while (getline(inFile, line))`
LoadLine ==
    /\ pc = "load"
    /\ input # <<>>
    /\ LET line == Head(input)
           rest == Tail(input)
       IN
       /\ input' = rest
       /\ UNCHANGED <<mem, locked_frames, currentPCB, cpu, globalTimer,
                      systemRunning, outFile, lastDispatch, lastMap, hist>>
       /\ CASE line.kind = "AMJ" ->
               \E frame \in allocateFrame(allocated) :
                   IF frame = -1
                   THEN \* delete pcb; throw runtime_error
                        /\ pc' = "aborted"
                        /\ programCode' = <<>>
                        /\ UNCHANGED <<readingData, loadPcb, loadPage,
                                       allocated, pcbs, readyQueue>>
                   ELSE /\ pcbs' = Append(pcbs, NewPCB(line.pid, line.TTL,
                                              line.TLL, frame * PAGE_SIZE))
                        /\ loadPcb' = Len(pcbs) + 1
                        /\ allocated' = [allocated EXCEPT ![frame] = TRUE]
                        /\ programCode' = <<>>
                        /\ pc' = AfterLine(rest)
                        /\ UNCHANGED <<readingData, loadPage, readyQueue>>
            [] line.kind = "DTA" ->
               /\ readingData' = TRUE
               /\ IF programCode # <<>> /\ loadPcb # 0
                  THEN \* loadProgramIntoMemory up to its allocation loop
                       /\ pcbs' = [pcbs EXCEPT
                              ![loadPcb].pageTable = EmptyPageTable,
                              ![loadPcb].hProg = Instructions(programCode)]
                       /\ loadPage' = 0
                       /\ pc' = IF pagesNeeded(Len(Instructions(programCode)))
                                       > 0
                                THEN "loadprog" ELSE AfterLine(rest)
                  ELSE /\ pc' = AfterLine(rest)
                       /\ UNCHANGED <<pcbs, loadPage>>
               /\ UNCHANGED <<programCode, loadPcb, allocated, readyQueue>>
            [] line.kind = "END" ->
               /\ readingData' = FALSE
               /\ readyQueue' = IF loadPcb # 0 THEN Append(readyQueue, loadPcb)
                                ELSE readyQueue
               /\ loadPcb' = 0
               /\ pc' = AfterLine(rest)
               /\ UNCHANGED <<programCode, loadPage, allocated, pcbs>>
            [] OTHER ->
               /\ pcbs' = IF readingData /\ loadPcb # 0
                          THEN [pcbs EXCEPT ![loadPcb].dataCards =
                                                Append(@, line.text)]
                          ELSE pcbs
               /\ programCode' = IF ~readingData /\ loadPcb # 0
                                 THEN Append(programCode, line.text)
                                 ELSE programCode
               /\ pc' = AfterLine(rest)
               /\ UNCHANGED <<readingData, loadPcb, loadPage, allocated,
                              readyQueue>>

\* loadProgramIntoMemory: one iteration of its allocation loop
LoadPage ==
    /\ pc = "loadprog"
    /\ UNCHANGED <<input, readingData, programCode, loadPcb, locked_frames,
                   readyQueue, currentPCB, cpu, globalTimer, systemRunning,
                   outFile, lastDispatch, lastMap, hist>>
    /\ \E frame \in allocateFrame(allocated) :
          IF frame = -1
          THEN \* throw runtime_error
               /\ pc' = "aborted"
               /\ UNCHANGED <<loadPage, mem, allocated, pcbs>>
          ELSE LET instrs == pcbs[loadPcb].hProg
               IN
               /\ allocated' = [allocated EXCEPT ![frame] = TRUE]
               /\ pcbs' = [pcbs EXCEPT ![loadPcb].pageTable[loadPage] =
                                          [frame |-> frame, valid |-> TRUE]]
               /\ mem' = LoadPageInto(mem, instrs, loadPage, frame)
               /\ loadPage' = loadPage + 1
               /\ pc' = IF /\ loadPage + 1 < pagesNeeded(Len(instrs))
                           /\ loadPage + 1 < FRAME_COUNT
                        THEN "loadprog" ELSE AfterLine(input)

(* ------------------------------- executor ------------------------------ *)

LoaderVars == <<input, readingData, programCode, loadPcb, loadPage>>

\* executeJob up to its loop: it returns at once for a terminated PCB, else
\* it sets the state of the current PCB
EnterJob(s) ==
    IF s.pcbs[s.currentPCB].terminated THEN [pc |-> "run", s |-> s]
    ELSE [pc |-> "exec",
          s |-> [s EXCEPT !.pcbs[s.currentPCB].state = RUNNING]]

\* run(): one evaluation of its while loop up to the loop of executeJob
run(s) ==
    IF ~(s.systemRunning /\ s.globalTimer < MAX_TIMER)
    THEN [pc |-> "halted", s |-> s]
    ELSE IF s.currentPCB = 0 /\ s.readyQueue = <<>>
    THEN [pc |-> "halted", s |-> [s EXCEPT !.systemRunning = FALSE]]
    ELSE IF s.currentPCB = 0
    THEN EnterJob(restoreContext(
                      [s EXCEPT !.currentPCB = Head(s.readyQueue),
                                !.readyQueue = Tail(s.readyQueue)]))
    ELSE EnterJob(s)

Run ==
    /\ pc = "run"
    /\ UNCHANGED <<LoaderVars, lastMap>>
    /\ pc' = run(Machine).pc
    /\ Commit(run(Machine).s)

\* the instruction fetch of executeJob: IR and IC after it, and the history
\* of the instruction words the job executed
Fetch(s, word) ==
    [s EXCEPT !.cpu.IR = Resize(DropNul(word)),
              !.cpu.IC = @ + 1,
              !.pcbs[s.currentPCB].hExec = Append(@, Resize(DropNul(word))),
              !.pcbs[s.currentPCB].hR = s.cpu.R]

\* `currentPCB->TTC++; globalTimer++;` for a currentPCB that is not null
UpdateTimers(s) ==
    [s EXCEPT !.pcbs[s.currentPCB].TTC = @ + 1,
              !.globalTimer = @ + 1]

\* executeJob after handleInterrupt: it returns when no PCB is current or
\* the current one is terminated, else it goes on to the context switch
AfterInterrupt(pending, s) ==
    [pc |-> IF pending /\ (s.currentPCB = 0
                           \/ s.pcbs[s.currentPCB].terminated)
            THEN "run" ELSE "switch",
     s |-> s]

\* `if (cpu.SI || cpu.PI || cpu.TI) handleInterrupt();`
ServiceInterrupts(s) ==
    AfterInterrupt(s.cpu.SI # 0 \/ s.cpu.PI # 0 \/ s.cpu.TI # 0,
                   IF s.cpu.SI # 0 \/ s.cpu.PI # 0 \/ s.cpu.TI # 0
                   THEN handleInterrupt(s) ELSE s)

\* executeJob after executeInstruction returned.  currentPCB->TTC++ through
\* a null pointer is undefined: the process is killed, or the access has no
\* effect and the loop is left
AfterInstruction(s) ==
    IF s.currentPCB = 0
    THEN {[pc |-> "crashed", s |-> s],
          [pc |-> "run", s |-> [s EXCEPT !.globalTimer = @ + 1]]}
    ELSE {ServiceInterrupts(UpdateTimers(s))}

\* executeJob: one iteration of its while loop, from the loop condition to
\* the return that follows handleInterrupt: where the program is afterwards
\* and the machine then
executeJob(s) ==
    LET p == s.pcbs[s.currentPCB]
        m == addressMap(s, s.cpu.IC)
    IN  IF p.terminated \/ ~(p.TTC < p.TTL)
        THEN \* the loop ends and executeJob returns
             {[pc |-> "run", s |-> s]}
        ELSE IF p.TTC >= p.TTL
        THEN {[pc |-> "run", s |-> terminate(s, EM_TIME_LIMIT)]}
        ELSE IF ~m.ok
        THEN {[pc |-> "run", s |-> [s EXCEPT !.cpu.PI = m.PI]]}
        ELSE IF DropNul(s.mem[m.RA]) = <<>>
        THEN {[pc |-> "run", s |-> s]}
        ELSE AfterInstruction(executeInstruction(Fetch(s, s.mem[m.RA])))

Cycle ==
    /\ pc = "exec"
    /\ UNCHANGED <<LoaderVars, lastMap>>
    /\ \E o \in executeJob(Machine) :
          /\ pc' = o.pc
          /\ Commit(o.s)

\* the body of the context switch: the PCB `old` goes to the tail of the
\* ready queue and the head becomes current; the history keeps the registers
\* as they are when old is preempted
SwitchTo(s, old) ==
    restoreContext(
        [saveContext(s) EXCEPT
            !.readyQueue = Tail(Append(s.readyQueue, old)),
            !.currentPCB = Head(Append(s.readyQueue, old)),
            !.pcbs[old].hPre = [taken |-> TRUE, R |-> s.cpu.R,
                                C |-> s.cpu.C, IC |-> s.cpu.IC]])

\* the context switch without the test of the global timer
ContextSwitch_NoQuantum(s) ==
    IF s.readyQueue # <<>> THEN SwitchTo(s, s.currentPCB) ELSE s

\* the context switch at the end of the loop body of executeJob
ContextSwitch(s) ==
    IF s.globalTimer % QUANTUM = 0 /\ s.readyQueue # <<>>
    THEN SwitchTo(s, s.currentPCB)
    ELSE s

Switch ==
    /\ pc = "switch"
    /\ UNCHANGED <<LoaderVars, lastMap>>
    /\ pc' = "exec"
    /\ Commit(ContextSwitch(Machine))

(* ---------------------------- specification ---------------------------- *)

NoDispatch == [TI |-> 0, PI |-> 0, SI |-> 0, entry |-> 0, handler |-> ""]

NoMap ==
    [done |-> FALSE, VA |-> 0, PI0 |-> 0, ok |-> FALSE, RA |-> 0, PI |-> 0]

NoHist == [since |-> 0, preempt |-> -1]

\* the MOS object after its constructor and the locals of loadJobs before
\* its first line
Constructed ==
    /\ readingData = FALSE
    /\ programCode = <<>>
    /\ loadPcb = 0
    /\ loadPage = 0
    /\ mem = [a \in 0..(MEM_SIZE - 1) |-> JunkWord]
    /\ allocated = [f \in Frames |-> FALSE]
    /\ locked_frames = {}
    /\ pcbs = <<>>
    /\ readyQueue = <<>>
    /\ currentPCB = 0
    /\ cpu = InitCPU
    /\ globalTimer = 0
    /\ systemRunning = TRUE
    /\ outFile = <<>>
    /\ pc = "load"
    /\ lastDispatch = NoDispatch
    /\ lastMap = NoMap
    /\ hist = NoHist

\* the MOS object after its constructor, with a deck of cards as input.txt
Init == input \in Decks /\ Constructed

Next == LoadLine \/ LoadPage \/ Run \/ Cycle \/ Switch

Spec == Init /\ [][Next]_vars

\* run() is one thread that goes on until it returns or the process dies:
\* each step that can be taken is taken.  A step of executeJob can be taken
\* exactly when pc = "exec" and leaves pc = "exec", so its weak fairness is
\* that pc is other than "exec" again and again
Fairness ==
    /\ WF_vars(LoadLine)
    /\ WF_vars(LoadPage)
    /\ WF_vars(Run)
    /\ WF_vars(Switch)
    /\ []<>(pc # "exec")

FairSpec == Spec /\ Fairness

(* ----------------------- the address mapper on its own ----------------- *)

\* the page tables addressMap is applied to: one entry of the empty table
\* replaced by any frame number, in range or not, valid or not
PageTables ==
    {[EmptyPageTable EXCEPT ![p] = [frame |-> f, valid |-> v]] :
        p \in Pages, f \in (-1)..FRAME_COUNT, v \in BOOLEAN}

\* a current PCB with one of the page tables, and cpu.PI clear or set
MapInit ==
    /\ input = <<>>
    /\ readingData = FALSE
    /\ programCode = <<>>
    /\ loadPcb = 0
    /\ loadPage = 0
    /\ mem = [a \in 0..(MEM_SIZE - 1) |-> JunkWord]
    /\ allocated = [f \in Frames |-> FALSE]
    /\ locked_frames = {}
    /\ \E pt \in PageTables :
          pcbs = <<[NewPCB(1, 1, 1, 0) EXCEPT !.pageTable = pt]>>
    /\ readyQueue = <<>>
    /\ currentPCB = 1
    /\ \E pi \in {0, PI_OP_ERR} : cpu = [InitCPU EXCEPT !.PI = pi]
    /\ globalTimer = 0
    /\ systemRunning = TRUE
    /\ outFile = <<>>
    /\ pc = "map"
    /\ lastDispatch = NoDispatch
    /\ lastMap = NoMap
    /\ hist = NoHist

\* addressMap(VA, RA) is called; the history keeps the call and its result
MapStep ==
    /\ pc = "map"
    /\ \E VA \in (0 - MapSlack)..(MEM_SIZE - 1 + MapSlack) :
          lastMap' = [done |-> TRUE, VA |-> VA, PI0 |-> cpu.PI,
                      ok |-> addressMap(Machine, VA).ok,
                      RA |-> addressMap(Machine, VA).RA,
                      PI |-> addressMap(Machine, VA).PI]
    /\ pc' = "mapped"
    /\ UNCHANGED <<LoaderVars, mem, allocated, locked_frames, pcbs,
                   readyQueue, currentPCB, cpu, globalTimer, systemRunning,
                   outFile, lastDispatch, hist>>

SpecMap == MapInit /\ [][MapStep]_vars

\* the program on the deck of three cards alone, with the same fairness
OrderInit == Init /\ input = OrderDeck

OrderSpec == OrderInit /\ [][Next]_vars /\ Fairness

\* the program on the deck of the looping job and the job of no instruction
ResumeInit == input = ResumeDeck /\ Constructed

ResumeSpec == ResumeInit /\ [][Next]_vars

(* ------------------- the executor on a loaded batch -------------------- *)

\* three jobs as their cards give them.  The first runs through five pages
\* in nine instructions, fills R on the way and ends on a PD; the second
\* stores R and loads it back; the third fills R and ends on a PD
PreemptJobs ==
    << [pid |-> 16, TTL |-> 12, TLL |-> 1, data |-> <<>>,
        prog |-> << <<"C", "R", "0", "5">>, <<"B", "T", "1", "0">>,
                    <<"L", "R", "0", "0">>, <<"B", "T", "2", "0">>,
                    <<"L", "R", "0", "0">>, <<"B", "T", "3", "0">>,
                    <<"L", "R", "0", "0">>, <<"B", "T", "4", "0">>,
                    <<"P", "D", "0", "0">> >>],
       [pid |-> 17, TTL |-> 5, TLL |-> 1, data |-> <<>>,
        prog |-> << <<"S", "R", "0", "5">>, <<"L", "R", "0", "5">> >>],
       [pid |-> 18, TTL |-> 5, TLL |-> 1, data |-> <<>>,
        prog |-> << <<"L", "R", "0", "0">>, <<"P", "D", "0", "0">> >>] >>

\* the pages loadProgramIntoMemory allocates for a job
JobPages(job) == pagesNeeded(Len(Instructions(job.prog)))

\* the number of calls of allocateFrame before the $AMJ card of job i
RECURSIVE FrameBase(_, _)
FrameBase(jobs, i) ==
    IF i = 1 THEN 0
    ELSE FrameBase(jobs, i - 1) + 1 + JobPages(jobs[i - 1])

\* the frames allocateFrame returned during loadJobs, in the order of the
\* calls: the first job has the frames 0 to 5 in that order, the two jobs of
\* two frames have the other four in every order
FrameOrders ==
    {<<0, 1, 2, 3, 4, 5>> \o [i \in 1..4 |-> 5 + q[i]] :
        q \in Permutations(1..4)}

\* the PCB of job i when loadJobs has read its $END card
LoadedPCB(jobs, fr, i) ==
    [NewPCB(jobs[i].pid, jobs[i].TTL, jobs[i].TLL,
            fr[FrameBase(jobs, i) + 1] * PAGE_SIZE)
     EXCEPT !.pageTable =
                [p \in Pages |->
                    IF p < JobPages(jobs[i])
                    THEN [frame |-> fr[FrameBase(jobs, i) + 2 + p],
                          valid |-> TRUE]
                    ELSE [frame |-> -1, valid |-> FALSE]],
            !.hProg = Instructions(jobs[i].prog),
            !.dataCards = jobs[i].data]

\* memory when loadProgramIntoMemory has loaded the pages from page p of
\* job i on and the jobs after it
RECURSIVE LoadedMem(_, _, _, _, _)
LoadedMem(jobs, fr, i, p, m) ==
    IF i > Len(jobs) THEN m
    ELSE IF p >= JobPages(jobs[i]) THEN LoadedMem(jobs, fr, i + 1, 0, m)
    ELSE LoadedMem(jobs, fr, i, p + 1,
                   LoadPageInto(m, Instructions(jobs[i].prog), p,
                                fr[FrameBase(jobs, i) + 2 + p]))

\* the program when loadJobs has returned for the three jobs and run() is
\* entered
PreemptInit ==
    /\ input = <<>>
    /\ readingData = FALSE
    /\ programCode = PreemptJobs[Len(PreemptJobs)].prog
    /\ loadPcb = 0
    /\ loadPage = JobPages(PreemptJobs[Len(PreemptJobs)])
    /\ \E fr \in FrameOrders :
          /\ mem = LoadedMem(PreemptJobs, fr, 1, 0,
                             [a \in 0..(MEM_SIZE - 1) |-> JunkWord])
          /\ allocated = [f \in Frames |->
                             \E k \in 1..Len(fr) : fr[k] = f]
          /\ pcbs = [i \in 1..Len(PreemptJobs) |->
                        LoadedPCB(PreemptJobs, fr, i)]
    /\ locked_frames = {}
    /\ readyQueue = [i \in 1..Len(PreemptJobs) |-> i]
    /\ currentPCB = 0
    /\ cpu = InitCPU
    /\ globalTimer = 0
    /\ systemRunning = TRUE
    /\ outFile = <<>>
    /\ pc = "run"
    /\ lastDispatch = NoDispatch
    /\ lastMap = NoMap
    /\ hist = NoHist

\* run() and what it calls
ExecNext == Run \/ Cycle \/ Switch

PreemptSpec == PreemptInit /\ [][ExecNext]_vars

(* -------------------------------- claims ------------------------------- *)

\* the PCB objects that exist: created and not deleted
Live == {i \in 1..Len(pcbs) : ~pcbs[i].deleted}

\* the jobs the scheduler holds: the current one and the ready ones
Scheduled ==
    {i \in 1..Len(pcbs) :
        i = currentPCB \/ \E k \in 1..Len(readyQueue) : readyQueue[k] = i}

\* the frames the valid page-table entries of PCB p reference
MappedFrames(p) == {p.pageTable[i].frame : i \in {j \in Pages : p.pageTable[j].valid}}

\* the page-table frame of PCB p
PageTableFrame(p) == IF p.PTR = -1 THEN {} ELSE {p.PTR \div PAGE_SIZE}

\* C1: whenever the loop of executeJob finds the current job, which has
\* executed at least one instruction, with TTC >= TTL, that step terminates
\* the job with reason TIME_LIMIT and the scheduler moves on (so a job with
\* TTL = 1 is terminated with TIME_LIMIT after its one instruction).
C1_TimeLimitTerminates ==
    [][(/\ pc = "exec"
        /\ currentPCB # 0
        /\ pcbs[currentPCB].hExec # <<>>
        /\ pcbs[currentPCB].TTC >= pcbs[currentPCB].TTL)
       => (/\ outFile' = Append(outFile,
                OutTerm(pcbs[currentPCB].pid, EM_TIME_LIMIT,
                        pcbs[currentPCB].TTC, pcbs[currentPCB].LLC))
           /\ currentPCB' # currentPCB)]_vars

\* a program of n >= 3 cards that are loads, stores and compares (no branch)
\* with every operand on a mapped page, and a time limit above n
StraightLine(p) ==
    /\ Len(p.hProg) >= 3
    /\ p.TTL > Len(p.hProg)
    /\ \A k \in 1..Len(p.hProg) :
          /\ Len(p.hProg[k]) = WORD_SIZE
          /\ SubSeq(p.hProg[k], 1, 2)
                \in {<<"L", "R">>, <<"S", "R">>, <<"C", "R">>}
          /\ stoi(SubSeq(p.hProg[k], 3, 4)).ok
          /\ stoi(SubSeq(p.hProg[k], 3, 4)).val \in 0..(MEM_SIZE - 1)
          /\ p.pageTable[stoi(SubSeq(p.hProg[k], 3, 4)).val
                            \div PAGE_SIZE].valid

\* C2: a job of n >= 3 straight-line cards executes its cards in card order:
\* the k-th instruction word it executes is its k-th card, and executeJob
\* does not return with the job still current before all n were executed.
C2_ProgramOrder ==
    \A j \in 1..Len(pcbs) :
        StraightLine(pcbs[j]) =>
            /\ \A k \in 1..Len(pcbs[j].hExec) :
                  k <= Len(pcbs[j].hProg)
                      => pcbs[j].hExec[k] = Resize(pcbs[j].hProg[k])
            /\ (pc = "run" /\ currentPCB = j)
                  => Len(pcbs[j].hExec) >= Len(pcbs[j].hProg)

\* C3: when a job that was preempted at a quantum boundary becomes current
\* again, R and C hold the values they had when it was preempted.
C3_RegisterIsolation ==
    [][(/\ currentPCB' # currentPCB
        /\ currentPCB' # 0
        /\ pcbs[currentPCB'].hPre.taken)
       => (/\ cpu'.R = pcbs[currentPCB'].hPre.R
           /\ cpu'.C = pcbs[currentPCB'].hPre.C)]_vars

\* a step that preempts: the PCB that was current is in the ready queue
Preempts ==
    /\ currentPCB # 0
    /\ \E k \in 1..Len(readyQueue') : readyQueue'[k] = currentPCB

ServiceHandler(si) ==
    CASE si = READ -> "handleRead"
      [] si = WRITE -> "handleWrite"
      [] si = TERM -> "handleTerminate"

ProgramHandler(pi) ==
    CASE pi = PI_OP_ERR -> "handleOpCodeError"
      [] pi = PI_OPERAND_ERR -> "handleOperandError"
      [] pi = PI_PAGE_FAULT -> "handlePageFault"

\* C5: a dispatch with only a service cause pending invokes the handler of
\* that service (handleRead, handleWrite, handleTerminate), and a dispatch
\* with only a program cause pending invokes the handler of that cause.
C5_DispatchMatchesCause ==
    lastDispatch.entry # 0 =>
        /\ (lastDispatch.TI = 0 /\ lastDispatch.PI = 0 /\ lastDispatch.SI # 0)
              => lastDispatch.handler = ServiceHandler(lastDispatch.SI)
        /\ (lastDispatch.TI = 0 /\ lastDispatch.PI # 0 /\ lastDispatch.SI = 0)
              => lastDispatch.handler = ProgramHandler(lastDispatch.PI)

\* the priority classes of the causes pending at the last dispatch
PendingClasses ==
    (IF lastDispatch.TI # 0 THEN {PRIORITY_TIMER} ELSE {})
        \cup (IF lastDispatch.PI = PI_PAGE_FAULT THEN {PRIORITY_PAGE_FAULT}
              ELSE IF lastDispatch.PI # 0 THEN {PRIORITY_PROGRAM} ELSE {})
        \cup (IF lastDispatch.SI # 0 THEN {PRIORITY_SYSCALL} ELSE {})

\* more than one of TI, PI, SI was pending at the last dispatch
SeveralPending ==
    Cardinality({x \in {"TI", "PI", "SI"} : lastDispatch[x] # 0}) > 1

\* C6: when a dispatch runs with more than one of TI, PI, SI pending, the
\* priority of the entry it invokes is at least the priority class of every
\* pending cause; PAGE_FAULT with WRITE invokes the page-fault handler.
C6_PriorityHonored ==
    (lastDispatch.entry # 0 /\ SeveralPending) =>
        /\ \A c \in PendingClasses :
              interruptVectorTable[lastDispatch.entry].priority >= c
        /\ (/\ lastDispatch.TI = 0
            /\ lastDispatch.PI = PI_PAGE_FAULT
            /\ lastDispatch.SI = WRITE)
              => lastDispatch.handler = "handlePageFault"

\* a dispatch ran with a page fault and a write pending together
C6_Witness ==
    /\ lastDispatch.entry # 0
    /\ lastDispatch.PI = PI_PAGE_FAULT
    /\ lastDispatch.SI = WRITE

\* C7: no frame is referenced by valid page-table entries of two live PCBs
\* or by two valid entries of one PCB, and no page-table frame of a live PCB
\* is a mapped frame or the page-table frame of another live PCB.
C7_DisjointFrames ==
    \A i \in Live : \A j \in Live :
        /\ i # j => MappedFrames(pcbs[i]) \cap MappedFrames(pcbs[j]) = {}
        /\ \A a \in Pages : \A b \in Pages :
              (/\ a # b
               /\ pcbs[i].pageTable[a].valid
               /\ pcbs[i].pageTable[b].valid)
                  => pcbs[i].pageTable[a].frame # pcbs[i].pageTable[b].frame
        /\ PageTableFrame(pcbs[i]) \cap MappedFrames(pcbs[j]) = {}
        /\ i # j => PageTableFrame(pcbs[i]) \cap PageTableFrame(pcbs[j]) = {}

\* two jobs with mapped pages are live while instructions execute
C7_Witness ==
    /\ pc = "exec"
    /\ globalTimer > 0
    /\ \E i \in Live : \E j \in Live :
          /\ i # j
          /\ MappedFrames(pcbs[i]) # {}
          /\ MappedFrames(pcbs[j]) # {}

\* C8: in the step in which terminate() deletes a PCB, its page-table frame
\* and every frame it mapped end up not allocated and not locked, all its
\* page-table entries end up invalid, and every frame of another live PCB
\* is allocated before and after.
C8_ReleaseOnTermination ==
    [][\A c \in Live :
          pcbs'[c].deleted =>
              /\ \A f \in PageTableFrame(pcbs[c]) \cup MappedFrames(pcbs[c]) :
                    ~allocated'[f] /\ f \notin locked_frames'
              /\ \A i \in Pages : ~pcbs'[c].pageTable[i].valid
              /\ \A q \in Live \ {c} :
                    \A f \in PageTableFrame(pcbs[q])
                                \cup MappedFrames(pcbs[q]) :
                        allocated[f] /\ allocated'[f]]_vars

\* a PCB was terminated and deleted, its program frame is free, and another
\* job with a mapped page is scheduled with its frames allocated
C8_Witness ==
    \E c \in 1..Len(pcbs) : \E q \in Scheduled :
        /\ pcbs[c].deleted
        /\ pcbs[c].pageTable[0].frame \in Frames
        /\ ~allocated[pcbs[c].pageTable[0].frame]
        /\ ~pcbs[q].deleted
        /\ MappedFrames(pcbs[q]) # {}
        /\ \A f \in PageTableFrame(pcbs[q]) \cup MappedFrames(pcbs[q]) :
              allocated[f]

\* C9: every scheduled PCB (the current one and the ready ones) has
\* TTC <= TTL.
C9_TTCBoundedByTTL ==
    \A i \in Scheduled : pcbs[i].TTC <= pcbs[i].TTL

\* C10: addressMap(VA) fails with PI = OPERAND_ERR when VA < 0 or VA >= 100;
\* else fails with PI = PAGE_FAULT when the entry of page VA / 10 is invalid
\* or its frame is outside [0, 10); else succeeds with
\* RA = frame * 10 + VA mod 10 and leaves PI as it was.
C10_AddressMapReference ==
    lastMap.done =>
        LET VA == lastMap.VA
            pt == pcbs[currentPCB].pageTable
        IN  IF VA < 0 \/ VA >= 100
            THEN ~lastMap.ok /\ lastMap.PI = PI_OPERAND_ERR
            ELSE IF \/ ~pt[VA \div 10].valid
                    \/ pt[VA \div 10].frame < 0
                    \/ pt[VA \div 10].frame >= 10
            THEN ~lastMap.ok /\ lastMap.PI = PI_PAGE_FAULT
            ELSE /\ lastMap.ok
                 /\ lastMap.RA = pt[VA \div 10].frame * 10 + (VA % 10)
                 /\ lastMap.PI = lastMap.PI0

\* VA = 99 on a valid page was mapped with a program cause already set
C10_Witness ==
    /\ lastMap.done
    /\ lastMap.VA = 99
    /\ lastMap.ok
    /\ lastMap.PI0 # 0

\* a step in which the current job fetches and executes an instruction
Executed ==
    /\ pc = "exec"
    /\ currentPCB # 0
    /\ Len(pcbs'[currentPCB].hExec) = Len(pcbs[currentPCB].hExec) + 1

\* the instruction word of that step, its opcode and its operand
ExecWord == pcbs'[currentPCB].hExec[Len(pcbs'[currentPCB].hExec)]

ExecOp == SubSeq(ExecWord, 1, 2)

ExecOperand == stoi(StripSpace(SubSeq(ExecWord, 3, WORD_SIZE)))

\* the operand of that step is a virtual address on a page the current job
\* has mapped
OperandMapped ==
    /\ ExecOperand.ok
    /\ ExecOperand.val \in 0..(MEM_SIZE - 1)
    /\ pcbs[currentPCB].pageTable[ExecOperand.val \div PAGE_SIZE].valid

\* the real address of the operand of that step, translated once
OperandAddress ==
    pcbs[currentPCB].pageTable[ExecOperand.val \div PAGE_SIZE].frame
        * PAGE_SIZE + (ExecOperand.val % PAGE_SIZE)

\* C11: a step that executes GD for a job with at least one data card
\* removes exactly the front card, does not terminate the job, leaves it
\* current or ready, and, where it stays current, leaves IC at the
\* instruction that follows the GD.
C11_GDReadOnly ==
    [][(/\ Executed
        /\ ExecOp = <<"G", "D">>
        /\ ExecOperand.ok
        /\ pcbs[currentPCB].dataCards # <<>>)
       => (/\ pcbs'[currentPCB].dataCards = Tail(pcbs[currentPCB].dataCards)
           /\ ~pcbs'[currentPCB].terminated
           /\ ~pcbs'[currentPCB].deleted
           /\ \/ currentPCB' = currentPCB
              \/ \E k \in 1..Len(readyQueue') : readyQueue'[k] = currentPCB
           /\ currentPCB' = currentPCB => cpu'.IC = cpu.IC + 1)]_vars

\* C12: a step that executes GD a, with a on a mapped page and a data card
\* at the front, leaves the first 4-character word of that card in the
\* memory word of virtual address a, mapped as before, so that a PD a that
\* follows emits it.
C12_ReadWriteEcho ==
    [][(/\ Executed
        /\ ExecOp = <<"G", "D">>
        /\ OperandMapped
        /\ pcbs[currentPCB].TLL >= 1
        /\ pcbs[currentPCB].dataCards # <<>>)
       => (/\ pcbs'[currentPCB].pageTable = pcbs[currentPCB].pageTable
           /\ mem'[OperandAddress] =
                 Resize(SubSeq(Head(pcbs[currentPCB].dataCards), 1,
                     IF Len(Head(pcbs[currentPCB].dataCards)) < WORD_SIZE
                     THEN Len(Head(pcbs[currentPCB].dataCards))
                     ELSE WORD_SIZE)))]_vars

\* the entries that step appended to output.txt
NewOutput == SubSeq(outFile', Len(outFile) + 1, Len(outFile'))

\* C13: a step that executes PD a, with the page of a valid and LLC < TLL,
\* emits as its output line the memory word at real address
\* frame(a / 10) * 10 + a mod 10: the operand is translated once, whatever
\* frames the allocator chose.
C13_PDTranslatesOnce ==
    [][(/\ Executed
        /\ ExecOp = <<"P", "D">>
        /\ OperandMapped
        /\ pcbs[currentPCB].LLC < pcbs[currentPCB].TLL)
       => (/\ NewOutput # <<>>
           /\ NewOutput[1] = OutLine(pcbs[currentPCB].pid,
                                     DropNul(mem[OperandAddress])))]_vars

\* the word at which the write handler looks up the operand's real address
\* is on a mapped page as well
WriteAddressMapped ==
    /\ OperandMapped
    /\ pcbs[currentPCB].pageTable[OperandAddress \div PAGE_SIZE].valid

\* C14: a step that executes PD a, with a mapped, the write address
\* translating and LLC < TLL, emits exactly one output line, adds exactly 1
\* to LLC and does not terminate the job.
C14_PDLeavesJobRunning ==
    [][(/\ Executed
        /\ ExecOp = <<"P", "D">>
        /\ WriteAddressMapped
        /\ pcbs[currentPCB].LLC < pcbs[currentPCB].TLL)
       => (/\ Cardinality({k \in 1..Len(NewOutput) :
                              NewOutput[k].kind = "line"}) = 1
           /\ pcbs'[currentPCB].LLC = pcbs[currentPCB].LLC + 1
           /\ ~pcbs'[currentPCB].terminated
           /\ ~pcbs'[currentPCB].deleted
           /\ \A k \in 1..Len(NewOutput) :
                 NewOutput[k].kind = "term"
                     => NewOutput[k].pid # pcbs[currentPCB].pid)]_vars

\* C15: a step that executes PD on a mapped address with LLC + 1 > TLL emits
\* no output line and terminates the job with reason LINE_LIMIT, the
\* termination block showing LLC one above its value before.
C15_LineLimit ==
    [][(/\ Executed
        /\ ExecOp = <<"P", "D">>
        /\ OperandMapped
        /\ pcbs[currentPCB].LLC + 1 > pcbs[currentPCB].TLL)
       => (/\ Len(NewOutput) = 1
           /\ NewOutput[1].kind = "term"
           /\ NewOutput[1].pid = pcbs[currentPCB].pid
           /\ NewOutput[1].reason = EM_LINE_LIMIT
           /\ NewOutput[1].LLC = pcbs[currentPCB].LLC + 1
           /\ pcbs'[currentPCB].deleted)]_vars

\* C16: a step that executes the instruction H terminates the job with
\* reason NO_ERR: the one entry the step appends to the output is the
\* termination block of the job with 'Normal termination'.
C16_HaltIsNormal ==
    [][(Executed /\ TrimRight(ExecWord) = <<"H">>)
       => (/\ Len(NewOutput) = 1
           /\ NewOutput[1].kind = "term"
           /\ NewOutput[1].pid = pcbs[currentPCB].pid
           /\ NewOutput[1].reason = EM_NO_ERR
           /\ pcbs'[currentPCB].deleted)]_vars

\* the opcodes of the instructions with an operand
KnownOps ==
    {<<"G", "D">>, <<"P", "D">>, <<"L", "R">>, <<"S", "R">>, <<"C", "R">>,
     <<"B", "T">>}

\* C17: a step that executes an instruction of at least 3 characters whose
\* opcode is none of GD, PD, LR, SR, CR, BT terminates the current job with
\* reason OP_CODE_ERR, leaves none of its frames allocated, and terminates
\* no other job.
C17_UnknownOpcode ==
    [][(/\ Executed
        /\ Len(TrimRight(ExecWord)) >= 3
        /\ ExecOp \notin KnownOps)
       => (/\ Len(NewOutput) = 1
           /\ NewOutput[1].kind = "term"
           /\ NewOutput[1].pid = pcbs[currentPCB].pid
           /\ NewOutput[1].reason = EM_OP_CODE_ERR
           /\ pcbs'[currentPCB].terminated
           /\ pcbs'[currentPCB].deleted
           /\ \A f \in PageTableFrame(pcbs[currentPCB])
                          \cup MappedFrames(pcbs[currentPCB]) :
                 ~allocated'[f]
           /\ \A q \in Live \ {currentPCB} :
                 ~pcbs'[q].terminated /\ ~pcbs'[q].deleted)]_vars

\* the job of the card XY00 was terminated for its opcode while another job
\* is scheduled and live
C17_Witness ==
    \E c \in 1..Len(pcbs) : \E q \in Scheduled :
        /\ pcbs[c].deleted
        /\ pcbs[c].hExec = << <<"X", "Y", "0", "0">> >>
        /\ \E k \in 1..Len(outFile) :
              /\ outFile[k].pid = pcbs[c].pid
              /\ outFile[k].reason = EM_OP_CODE_ERR
        /\ ~pcbs[q].deleted
        /\ ~pcbs[q].terminated

\* C18: a step that executes LR, SR, CR or PD with an operand in [0, 100)
\* whose page is not valid changes neither R nor C nor any memory word
\* outside the frames the termination releases, adds 1 to the job's TTC and
\* terminates it in that step with reason INVALID_PAGE; with an operand
\* outside [0, 100) the step terminates it with reason OPERAND_ERR.
C18_PageFaultFatal ==
    [][(/\ Executed
        /\ ExecOp \in {<<"L", "R">>, <<"S", "R">>, <<"C", "R">>, <<"P", "D">>}
        /\ ExecOperand.ok
        /\ ~OperandMapped)
       => (/\ pcbs'[currentPCB].deleted
           /\ pcbs'[currentPCB].TTC = pcbs[currentPCB].TTC + 1
           /\ NewOutput =
                 <<OutTerm(pcbs[currentPCB].pid,
                           IF ExecOperand.val \in 0..(MEM_SIZE - 1)
                           THEN EM_INVALID_PAGE ELSE EM_OPERAND_ERR,
                           pcbs[currentPCB].TTC + 1,
                           pcbs[currentPCB].LLC)>>
           /\ ExecOperand.val \in 0..(MEM_SIZE - 1)
                 => /\ cpu'.R = cpu.R
                    /\ cpu'.C = cpu.C
                    /\ \A a \in 0..(MEM_SIZE - 1) :
                          \/ mem'[a] = mem[a]
                          \/ a \div PAGE_SIZE
                                \in PageTableFrame(pcbs[currentPCB])
                                    \cup MappedFrames(pcbs[currentPCB]))]_vars

\* a job was terminated for its second instruction, on page 5, with TTC 2,
\* and R still holds what its first instruction loaded
C18_Witness ==
    \E c \in 1..Len(pcbs) :
        /\ pcbs[c].deleted
        /\ Len(pcbs[c].hExec) = 2
        /\ SubSeq(pcbs[c].hExec[2], 3, 4) = <<"5", "0">>
        /\ outFile = <<OutTerm(pcbs[c].pid, EM_INVALID_PAGE, 2, 0)>>
        /\ cpu.R = <<"L", "R", "0", "0">>

\* the executor is on a job that has time left and whose next fetch fails:
\* IC is outside memory or on a page that is not valid, or the word at IC
\* holds no character
FetchFails ==
    /\ pc \in {"run", "exec"}
    /\ currentPCB # 0
    /\ ~pcbs[currentPCB].terminated
    /\ pcbs[currentPCB].TTC < pcbs[currentPCB].TTL
    /\ \/ cpu.IC \notin 0..(MEM_SIZE - 1)
       \/ ~pcbs[currentPCB].pageTable[cpu.IC \div PAGE_SIZE].valid
       \/ DropNul(mem[pcbs[currentPCB].pageTable[cpu.IC \div PAGE_SIZE].frame
                          * PAGE_SIZE + (cpu.IC % PAGE_SIZE)]) = <<>>

\* C19: the executor does not stay forever on a job whose fetch fails:
\* whenever the next fetch of the current job cannot be mapped or finds an
\* empty word, the job is eventually terminated (or the fetch succeeds).
C19_FetchFailureDispatched == FetchFails ~> ~FetchFails

\* C20: in a step in which a job is terminated, the TTC, LLC, page table,
\* data cards and saved instruction counter of every other PCB, the one that
\* becomes current included, are as before.
C20_TerminationIsolated ==
    [][\A c \in Live :
          pcbs'[c].deleted =>
              \A q \in Live \ {c} :
                  /\ pcbs'[q].TTC = pcbs[q].TTC
                  /\ pcbs'[q].LLC = pcbs[q].LLC
                  /\ pcbs'[q].pageTable = pcbs[q].pageTable
                  /\ pcbs'[q].dataCards = pcbs[q].dataCards
                  /\ pcbs'[q].programCounter = pcbs[q].programCounter]_vars

\* C21: the page-table frame of every live PCB, from its $AMJ card to its
\* termination, is allocated and has its lock bit set.
C21_PageTablePinned ==
    \A j \in Live :
        \A f \in PageTableFrame(pcbs[j]) :
            allocated[f] /\ f \in locked_frames

\* the instruction the current job executed last was SR with the operand
\* of the instruction of this step
LastWasStore ==
    LET h == pcbs[currentPCB].hExec
    IN  /\ h # <<>>
        /\ SubSeq(h[Len(h)], 1, 2) = <<"S", "R">>
        /\ stoi(StripSpace(SubSeq(h[Len(h)], 3, WORD_SIZE))) = ExecOperand

\* C22: a step in which a job executes LR a, a on a mapped page, the
\* instruction the job executed before being SR a, leaves in R the value R
\* had before the SR, whatever ran between the two.
C22_LoadStore ==
    [][(/\ Executed
        /\ ExecOp = <<"L", "R">>
        /\ OperandMapped
        /\ LastWasStore)
       => cpu'.R = pcbs[currentPCB].hR]_vars

\* a job has executed SR 05 and then LR 05, it was preempted between the
\* two, another job left a different word in R, and R is the word it was
\* when the job was preempted
C22_Witness ==
    /\ currentPCB # 0
    /\ pcbs[currentPCB].hExec
           = << <<"S", "R", "0", "5">>, <<"L", "R", "0", "5">> >>
    /\ pcbs[currentPCB].hPre.taken
    /\ pcbs[currentPCB].hPre.IC = 1
    /\ pcbs[currentPCB].hPre.R # NulWord
    /\ pcbs[currentPCB].hR # pcbs[currentPCB].hPre.R
    /\ cpu.R = pcbs[currentPCB].hPre.R

\* C23: a step that executes BT addr with C false, addr in [0, 100), leaves
\* the job current and not terminated with IC at the address after the BT,
\* dispatches nothing and writes nothing; with C true and addr on a mapped
\* page it leaves IC = addr.
C23_BranchConditional ==
    [][(/\ Executed
        /\ ExecOp = <<"B", "T">>
        /\ ExecOperand.ok
        /\ ExecOperand.val \in 0..(MEM_SIZE - 1))
       => (/\ ~cpu.C
              => /\ currentPCB' = currentPCB
                 /\ ~pcbs'[currentPCB].terminated
                 /\ ~pcbs'[currentPCB].deleted
                 /\ cpu'.IC = cpu.IC + 1
                 /\ cpu'.PI = 0
                 /\ lastDispatch' = lastDispatch
                 /\ outFile' = outFile
           /\ (cpu.C /\ OperandMapped)
              => /\ currentPCB' = currentPCB
                 /\ cpu'.IC = ExecOperand.val)]_vars

\* C24: executeJob never uses currentPCB while it is null: the run loop is
\* never left by the failure of `currentPCB->TTC++` on a null pointer.
C24_NoNullCurrentPCB == pc # "crashed"

\* C25: in a step in which a job becomes the current one, by preemption of
\* another job, by run() or by the hand-off of terminate(), IC is left at 0
\* if the job was never run and at the value IC had when the job was last
\* preempted otherwise.
C25_ResumeWherePreempted ==
    [][(currentPCB' # currentPCB /\ currentPCB' # 0)
       => cpu'.IC = IF pcbs[currentPCB'].hPre.taken
                    THEN pcbs[currentPCB'].hPre.IC ELSE 0]_vars

\* C26: loading is aborted by allocateFrame returning -1 only when every
\* frame is allocated.
C26_AbortOnlyOnExhaustion ==
    [][(pc # "aborted" /\ pc' = "aborted")
       => \A f \in Frames : allocated[f]]_vars

\* the output lines written on behalf of the job with identifier pid
LinesOf(pid) ==
    {k \in 1..Len(outFile) : outFile[k].kind = "line" /\ outFile[k].pid = pid}

\* C27: for every job the number of output lines written on its behalf,
\* the termination block excluded, is at most its TLL.
C27_LineQuota ==
    \A j \in 1..Len(pcbs) : Cardinality(LinesOf(pcbs[j].pid)) <= pcbs[j].TLL

\* a job with TLL = 0 has executed PD on a mapped address, LLC is above TLL
\* and no line was written for it
C27_Witness ==
    \E j \in 1..Len(pcbs) :
        /\ pcbs[j].TLL = 0
        /\ pcbs[j].hExec = << <<"P", "D", "0", "0">> >>
        /\ pcbs[j].LLC = 1
        /\ LinesOf(pcbs[j].pid) = {}

====
